---- MODULE Spec2Model ----
(***************************************************************************)
(* Model of src/generator.py: a linear pipeline that asks a remote text    *)
(* generation service for a site structure, a header, a footer, a          *)
(* stylesheet and one body per page, and writes the results into the       *)
(* output directory.  Text blobs are sequences of one-character strings.   *)
(***************************************************************************)
EXTENDS Integers, Sequences, FiniteSets, TLC

(* ------------------------------ bounds ------------------------------- *)

\* longest blob handed to assemble_page in the assembler specification
MaxLen == 2
\* longest page list a structure response holds
MaxPages == 2

\* characters the blobs of the assembler specification are made of
Alphabet == {"<", "a"}

Range(s) == {s[i] : i \in DOMAIN s}

SeqsUpTo(S, n) == UNION {[1..k -> S] : k \in 0..n}

(* ---------------------------- assemble_page -------------------------- *)

TemplateHead ==
  <<
    "<", "!", "D", "O", "C", "T", "Y", "P", "E", " ", "h", "t", "m", "l",
    ">", "\n", "<", "h", "t", "m", "l", " ", "l", "a", "n", "g", "=", "\"",
    "e", "n", "\"", ">", "\n", "<", "h", "e", "a", "d", ">", "\n", " ", " ",
    "<", "m", "e", "t", "a", " ", "c", "h", "a", "r", "s", "e", "t", "=",
    "\"", "U", "T", "F", "-", "8", "\"", " ", "/", ">", "\n", " ", " ", "<",
    "m", "e", "t", "a", " ", "n", "a", "m", "e", "=", "\"", "v", "i", "e",
    "w", "p", "o", "r", "t", "\"", " ", "c", "o", "n", "t", "e", "n", "t",
    "=", "\"", "w", "i", "d", "t", "h", "=", "d", "e", "v", "i", "c", "e",
    "-", "w", "i", "d", "t", "h", ",", " ", "i", "n", "i", "t", "i", "a",
    "l", "-", "s", "c", "a", "l", "e", "=", "1", ".", "0", "\"", "/", ">",
    "\n", " ", " ", "<", "l", "i", "n", "k", " ", "r", "e", "l", "=", "\"",
    "s", "t", "y", "l", "e", "s", "h", "e", "e", "t", "\"", " ", "h", "r",
    "e", "f", "=", "\"", "m", "a", "i", "n", ".", "c", "s", "s", "\"", "/",
    ">", "\n", "<", "/", "h", "e", "a", "d", ">", "\n", "<", "b", "o", "d",
    "y", ">", "\n" >>

TemplateMain ==
  <<
    "\n", "<", "m", "a", "i", "n", ">", "\n" >>

TemplateEndMain ==
  <<
    "\n", "<", "/", "m", "a", "i", "n", ">", "\n" >>

TemplateTail ==
  <<
    "\n", "<", "/", "b", "o", "d", "y", ">", "\n", "<", "/", "h", "t", "m",
    "l", ">", "\n" >>

\* faulty variant: the footer is placed before the body
AssemblePageFooterFirst(body, header, footer) ==
  TemplateHead \o header \o TemplateMain \o footer \o TemplateEndMain
    \o body \o TemplateTail

\* faulty variant: the body is cut to its first character
AssemblePageCutBody(body, header, footer) ==
  TemplateHead \o header \o TemplateMain
    \o (IF body = <<>> THEN <<>> ELSE <<Head(body)>>)
    \o TemplateEndMain \o footer \o TemplateTail

AssemblePage(body, header, footer) ==
  TemplateHead \o header \o TemplateMain \o body \o TemplateEndMain
    \o footer \o TemplateTail

(* ------------------------------ json.loads --------------------------- *)

\* A response text of the structure call is a sequence of JSON tokens: the
\* punctuation below, string literals (any other token), or prose/markdown.
Punctuation == {"{", "}", "[", "]", ":", ","}

\* the opening and closing line of a markdown code fence
Fence == {"<fence json>", "<fence>"}

IsStringToken(x) == x \notin Punctuation \cup Fence

EmptyMap == [x \in {} |-> x]

Bind(f, k, v) == [x \in DOMAIN f \cup {k} |-> IF x = k THEN v ELSE f[x]]

RECURSIVE ParseItems(_)
\* the elements of a JSON array: string literals separated by commas
ParseItems(v) ==
  IF v = <<>> THEN [ok |-> TRUE, value |-> <<>>]
  ELSE IF ~IsStringToken(v[1]) THEN [ok |-> FALSE, value |-> <<>>]
  ELSE IF Len(v) = 1 THEN [ok |-> TRUE, value |-> <<v[1]>>]
  ELSE IF v[2] = "," /\ Len(v) >= 3
    THEN LET r == ParseItems(SubSeq(v, 3, Len(v)))
         IN  [ok |-> r.ok, value |-> <<v[1]>> \o r.value]
    ELSE [ok |-> FALSE, value |-> <<>>]

\* a JSON value: a string literal or an array of string literals
ParseValue(v) ==
  IF Len(v) = 1 /\ IsStringToken(v[1]) THEN [ok |-> TRUE, value |-> v[1]]
  ELSE IF Len(v) >= 2 /\ v[1] = "[" /\ v[Len(v)] = "]"
    THEN ParseItems(SubSeq(v, 2, Len(v) - 1))
    ELSE [ok |-> FALSE, value |-> <<>>]

\* faulty variant: a text that does not parse is replaced by a default structure
JsonLoadsLenient(t) ==
  IF t = <<"{", "}">> THEN [ok |-> TRUE, value |-> EmptyMap]
  ELSE IF Len(t) >= 5 /\ t[1] = "{" /\ IsStringToken(t[2]) /\ t[3] = ":"
          /\ t[Len(t)] = "}" /\ ParseValue(SubSeq(t, 4, Len(t) - 1)).ok
    THEN [ok |-> TRUE,
          value |-> Bind(EmptyMap, t[2], ParseValue(SubSeq(t, 4, Len(t) - 1)).value)]
    ELSE [ok |-> TRUE, value |-> Bind(EmptyMap, "pages", <<"index.html">>)]

\* json.loads on an object with at most one member; ok = FALSE stands for
\* json.JSONDecodeError
JsonLoads(t) ==
  IF t = <<"{", "}">> THEN [ok |-> TRUE, value |-> EmptyMap]
  ELSE IF Len(t) >= 5 /\ t[1] = "{" /\ IsStringToken(t[2]) /\ t[3] = ":"
          /\ t[Len(t)] = "}"
    THEN LET r == ParseValue(SubSeq(t, 4, Len(t) - 1))
         IN  [ok |-> r.ok, value |-> Bind(EmptyMap, t[2], r.value)]
    ELSE [ok |-> FALSE, value |-> EmptyMap]

(* --------------------- what the remote service returns --------------- *)

\* page identifiers a structure response can name; one of them collides
\* with a file the driver writes itself
PageNames == {"index.html", "pricing.html", "header.html"}

PageLists == SeqsUpTo(PageNames, MaxPages)

RECURSIVE ItemsText(_)
ItemsText(pages) ==
  IF pages = <<>> THEN <<>>
  ELSE IF Len(pages) = 1 THEN <<pages[1]>>
  ELSE <<pages[1], ",">> \o ItemsText(Tail(pages))

PagesText(pages) == <<"{", "pages", ":", "[">> \o ItemsText(pages) \o <<"]", "}">>

\* well-formed JSON that carries a page list
TextsWithPages == {PagesText(p) : p \in PageLists}

\* well-formed JSON without a "pages" member
TextsWithoutPages == {<<"{", "}">>, <<"{", "title", ":", "Site", "}">>}

\* not JSON: wrapped in a markdown fence, cut short, or with a trailing comma
TextsNotJson ==
  {<<"<fence json>">> \o PagesText(<<"index.html">>) \o <<"<fence>">>,
   <<"{", "pages", ":", "[", "index.html">>,
   <<"{", "pages", ":", "[", "index.html", ",", "]", "}">>,
   <<"Here", "is", "the", "structure">>}

StructureTexts == TextsWithPages \cup TextsWithoutPages \cup TextsNotJson

\* header, footer, stylesheet and body markup the service can return
Blobs == {<<"a">>, <<"<", "a">>}

\* exceptions call_ai lets escape: the request fails or times out, the
\* status is not a success, the reply has no content field
CallErrors == {"RequestException", "HTTPError", "KeyError"}

Prompts == {"A fintech landing site"}

(* --------------------------- state of a run -------------------------- *)

VARIABLES
  apiKey,   \* OPENROUTER_API_KEY: <<>> is None (unset), <<s>> the string s
  pc,       \* the statement of main() to execute next
  frame,    \* the local variables of main() that are bound so far
  idx,      \* position of the for loop in structure["pages"], 0 outside
  files,    \* the output directory: file name -> text
  log,      \* every call_ai request and every write_text, in order
  error,    \* the exception that ended the run, "" while there is none
  asmArgs,  \* arguments of assemble_page (assembler specification)
  asmOut    \* results of assemble_page (assembler specification)

vars == <<apiKey, pc, frame, idx, files, log, error, asmArgs, asmOut>>

asmVars == <<asmArgs, asmOut>>

ApiKeys == {<<>>, <<"">>, <<"sk-or-v1">>}

\* faulty variant: the credential check is missing
KeyMissingNever(k) == FALSE

\* `not OPENROUTER_API_KEY`: None and the empty string are both falsy
KeyMissing(k) == k = <<>> \/ k[1] = ""

\* the statements of main() in program order
MainOrder ==
  <<"check_key", "read_prompt", "structure", "header", "footer",
    "write_header", "write_footer", "css", "write_css", "pages">>

PositionIn(order, p) == CHOOSE i \in DOMAIN order : order[i] = p

\* faulty variant: the stylesheet is generated and written before the header and
\* the footer are written
FollowingCssFirst(p) ==
  LET order == <<"check_key", "read_prompt", "structure", "header", "footer",
                 "css", "write_css", "write_header", "write_footer", "pages">>
  IN  order[PositionIn(order, p) + 1]

\* the statement that follows p when p completes
Following(p) == MainOrder[PositionIn(MainOrder, p) + 1]

\* faulty variant: the exception is swallowed and the statement is run again
RaiseSwallowed(e) == pc' = pc /\ error' = e

\* an exception propagates out of main(): nothing catches it
Raise(e) == pc' = "failed" /\ error' = e

CallEvent(target, i, ok, result) ==
  [op |-> "call", target |-> target, idx |-> i, ok |-> ok, result |-> result]

WriteEvent(name, i, ok, data) ==
  [op |-> "write", target |-> name, idx |-> i, ok |-> ok, result |-> data]

\* call_ai raises: the request was sent, nothing is returned
CallFails(target, i) ==
  \E e \in CallErrors :
    /\ log' = Append(log, CallEvent(target, i, FALSE, <<>>))
    /\ Raise(e)
    /\ UNCHANGED <<frame, idx, files>>

\* write_text either writes the text, or raises before the file is opened
\* (the file is left as it was), or raises after open(mode='w') truncated it
WriteOutcomes == {"ok", "not_opened", "truncated"}

WriteError(o) == IF o = "not_opened" THEN "PermissionError" ELSE "UnicodeEncodeError"

AfterWrite(f, name, data, o) ==
  IF o = "ok" THEN Bind(f, name, data)
  ELSE IF o = "truncated" THEN Bind(f, name, <<>>)
  ELSE f

\* (OUTPUT_DIR / name).write_text(data), then the statement `next`
WriteText(name, i, data, next) ==
  \E o \in WriteOutcomes :
    /\ files' = AfterWrite(files, name, data, o)
    /\ log' = Append(log, WriteEvent(name, i, o = "ok", data))
    /\ IF o = "ok" THEN pc' = next /\ UNCHANGED error ELSE Raise(WriteError(o))

PipeInit(keys) ==
  /\ apiKey \in keys
  /\ pc = "check_key"
  /\ frame = EmptyMap
  /\ idx = 0
  /\ files = EmptyMap
  /\ log = <<>>
  /\ error = ""

Init ==
  /\ PipeInit(ApiKeys)
  /\ asmArgs = [body |-> <<>>, other |-> <<>>, header |-> <<>>, footer |-> <<>>]
  /\ asmOut = <<>>

(* -------------------------------- main() ----------------------------- *)

CheckKey ==
  /\ pc = "check_key"
  /\ IF KeyMissing(apiKey)
       THEN Raise("RuntimeError")
       ELSE pc' = Following(pc) /\ UNCHANGED error
  /\ UNCHANGED <<apiKey, frame, idx, files, log, asmVars>>

ReadPrompt ==
  /\ pc = "read_prompt"
  /\ \/ Raise("FileNotFoundError") /\ UNCHANGED frame
     \/ \E p \in Prompts :
          /\ frame' = Bind(frame, "prompt", p)
          /\ pc' = Following(pc)
          /\ UNCHANGED error
  /\ UNCHANGED <<apiKey, idx, files, log, asmVars>>

GenerateStructure ==
  /\ pc = "structure"
  /\ \/ CallFails("structure", 0)
     \/ \E t \in StructureTexts :
          /\ log' = Append(log, CallEvent("structure", 0, TRUE, t))
          /\ IF JsonLoads(t).ok
               THEN /\ frame' = Bind(frame, "structure", JsonLoads(t).value)
                    /\ pc' = Following(pc)
                    /\ UNCHANGED error
               ELSE Raise("JSONDecodeError") /\ UNCHANGED frame
          /\ UNCHANGED <<idx, files>>
  /\ UNCHANGED <<apiKey, asmVars>>

GenerateHeader ==
  /\ pc = "header"
  /\ \/ CallFails("header", 0)
     \/ \E r \in Blobs :
          /\ log' = Append(log, CallEvent("header", 0, TRUE, r))
          /\ frame' = Bind(frame, "header", r)
          /\ pc' = Following(pc)
          /\ UNCHANGED <<error, idx, files>>
  /\ UNCHANGED <<apiKey, asmVars>>

GenerateFooter ==
  /\ pc = "footer"
  /\ \/ CallFails("footer", 0)
     \/ \E r \in Blobs :
          /\ log' = Append(log, CallEvent("footer", 0, TRUE, r))
          /\ frame' = Bind(frame, "footer", r)
          /\ pc' = Following(pc)
          /\ UNCHANGED <<error, idx, files>>
  /\ UNCHANGED <<apiKey, asmVars>>

WriteHeader ==
  /\ pc = "write_header"
  /\ WriteText("header.html", 0, frame["header"], Following(pc))
  /\ UNCHANGED <<apiKey, frame, idx, asmVars>>

WriteFooter ==
  /\ pc = "write_footer"
  /\ WriteText("footer.html", 0, frame["footer"], Following(pc))
  /\ UNCHANGED <<apiKey, frame, idx, asmVars>>

GenerateCss ==
  /\ pc = "css"
  /\ \/ CallFails("css", 0)
     \/ \E r \in Blobs :
          /\ log' = Append(log, CallEvent("css", 0, TRUE, r))
          /\ frame' = Bind(frame, "css", r)
          /\ pc' = Following(pc)
          /\ UNCHANGED <<error, idx, files>>
  /\ UNCHANGED <<apiKey, asmVars>>

WriteCss ==
  /\ pc = "write_css"
  /\ WriteText("main.css", 0, frame["css"], Following(pc))
  /\ UNCHANGED <<apiKey, frame, idx, asmVars>>

\* `for page in structure["pages"]`: the subscript is evaluated here, for
\* the first time in the run
EnterLoop ==
  /\ pc = "pages"
  /\ IF "pages" \in DOMAIN frame["structure"]
       THEN idx' = 1 /\ pc' = "next_page" /\ UNCHANGED error
       ELSE Raise("KeyError") /\ UNCHANGED idx
  /\ UNCHANGED <<apiKey, frame, files, log, asmVars>>

\* faulty variant: the loop stops one element early
HasNextOffByOne(i, pages) == i < Len(pages)

\* the list iterator has an element left
HasNext(i, pages) == i <= Len(pages)

GeneratePage ==
  /\ pc = "next_page"
  /\ HasNext(idx, frame["structure"]["pages"])
  /\ LET page == frame["structure"]["pages"][idx]
     IN  \/ CallFails("page", idx)
         \/ \E r \in Blobs :
              /\ log' = Append(log, CallEvent("page", idx, TRUE, r))
              /\ frame' = Bind(Bind(frame, "page", page), "body", r)
              /\ pc' = "write_page"
              /\ UNCHANGED <<error, idx, files>>
  /\ UNCHANGED <<apiKey, asmVars>>

WritePage ==
  /\ pc = "write_page"
  /\ LET full_html == AssemblePage(frame["body"], frame["header"], frame["footer"])
     IN  WriteText(frame["page"], idx, full_html, "next_page")
  /\ idx' = idx + 1
  /\ UNCHANGED <<apiKey, frame, asmVars>>

Finish ==
  /\ pc = "next_page"
  /\ ~HasNext(idx, frame["structure"]["pages"])
  /\ pc' = "done"
  /\ UNCHANGED <<apiKey, frame, idx, files, log, error, asmVars>>

Next ==
  \/ CheckKey
  \/ ReadPrompt
  \/ GenerateStructure
  \/ GenerateHeader
  \/ GenerateFooter
  \/ WriteHeader
  \/ WriteFooter
  \/ GenerateCss
  \/ WriteCss
  \/ EnterLoop
  \/ GeneratePage
  \/ WritePage
  \/ Finish

Spec == Init /\ [][Next]_vars

(* ------------------- assemble_page as a pure function ---------------- *)

Strings == SeqsUpTo(Alphabet, MaxLen)

AsmInit ==
  /\ PipeInit({<<"sk-or-v1">>})
  /\ asmArgs \in [body : Strings, other : Strings, header : Strings, footer : Strings]
  /\ asmOut = <<>>

\* assemble_page(body, header, footer) and assemble_page(other, header, footer)
Assemble ==
  /\ asmOut = <<>>
  /\ asmOut' = <<AssemblePage(asmArgs.body, asmArgs.header, asmArgs.footer),
                 AssemblePage(asmArgs.other, asmArgs.header, asmArgs.footer)>>
  /\ UNCHANGED <<apiKey, pc, frame, idx, files, log, error, asmArgs>>

AsmNext == Assemble

SpecAsm == AsmInit /\ [][AsmNext]_vars

(* ------------------------------ properties --------------------------- *)

SharedFiles == {"header.html", "footer.html", "main.css"}

\* the events of the log that satisfy Test(_)
Events(Test(_)) == {n \in DOMAIN log : Test(log[n])}

IsCall(e) == e.op = "call"

IsPageCall(e) == e.op = "call" /\ e.target = "page"

IsWritten(e) == e.op = "write" /\ e.ok

\* the text the structure call returned, <<>> when it has not returned
StructureReply ==
  IF log # <<>> /\ log[1].ok THEN log[1].result ELSE <<>>

PagesKnown == "structure" \in DOMAIN frame /\ "pages" \in DOMAIN frame["structure"]

Pages == IF PagesKnown THEN frame["structure"]["pages"] ELSE <<>>

\* the body the service returned for the page at position i
BodyOf(i) ==
  log[CHOOSE n \in DOMAIN log : IsPageCall(log[n]) /\ log[n].idx = i].result

\* C1: when the credential is absent (unset or empty) the run ends with the
\* configuration error, no request has been sent and no file written.
C1_NoCredentialNoSideEffect ==
  (apiKey = <<>> \/ apiKey = <<"">>) =>
    /\ pc \in {"check_key", "failed"}
    /\ pc = "failed" => error = "RuntimeError"
    /\ log = <<>>
    /\ DOMAIN files = {}

C1_Witness == apiKey = <<>> /\ pc = "failed" /\ error = "RuntimeError"

\* C2: when the structure call returned text that is not JSON, the run has
\* failed with the JSON decoding error and no generate_page call was issued.
C2_NotJsonNoPageCall ==
  StructureReply \in TextsNotJson =>
    /\ pc = "failed"
    /\ error = "JSONDecodeError"
    /\ Events(IsPageCall) = {}

C2_Witness ==
  /\ pc = "failed"
  /\ error = "JSONDecodeError"
  /\ StructureReply = <<"<fence json>">> \o PagesText(<<"index.html">>) \o <<"<fence>">>

\* C3: when the structure reply is JSON without a "pages" member, the run
\* stops at the planner: no header, footer or stylesheet call is issued and
\* no file is written.
C3_MissingPagesFailsAtPlanner ==
  StructureReply \in TextsWithoutPages =>
    /\ Len(log) = 1
    /\ DOMAIN files = {}
    /\ pc \in {"header", "failed"}

\* C4: no output file is written twice, and a completed run has written
\* header.html, footer.html and main.css exactly once each.
C4_NoFileWrittenTwice ==
  /\ \A m, n \in Events(IsWritten) : m # n => log[m].target # log[n].target
  /\ pc = "done" =>
       \A f \in SharedFiles :
         Cardinality({n \in Events(IsWritten) : log[n].target = f}) = 1

\* C5: after a completed run the three shared files hold the header, the
\* footer and the stylesheet, and the file of every page holds
\* assemble_page(its body, header, footer).
C5_FilesHoldGeneratedContent ==
  pc = "done" =>
    /\ files["header.html"] = frame["header"]
    /\ files["footer.html"] = frame["footer"]
    /\ files["main.css"] = frame["css"]
    /\ \A i \in DOMAIN Pages :
         files[Pages[i]] = AssemblePage(BodyOf(i), frame["header"], frame["footer"])

\* C6: after a completed run the files written are exactly header.html,
\* footer.html, main.css and the files named by the page identifiers; with
\* an empty page list exactly the three shared files.
C6_ExactlyTheExpectedFiles ==
  pc = "done" =>
    /\ {log[n].target : n \in Events(IsWritten)} = SharedFiles \cup Range(Pages)
    /\ DOMAIN files = SharedFiles \cup Range(Pages)
    /\ Pages = <<>> => DOMAIN files = SharedFiles

C6_Witness ==
  /\ pc = "done"
  /\ Pages = <<"index.html", "pricing.html">>
  /\ DOMAIN files = SharedFiles \cup {"index.html", "pricing.html"}

Occurrences(sub, s) ==
  Cardinality({i \in 1..(Len(s) - Len(sub) + 1) : SubSeq(s, i, i + Len(sub) - 1) = sub})

FirstAt(sub, s) ==
  CHOOSE i \in 1..(Len(s) - Len(sub) + 1) :
    /\ SubSeq(s, i, i + Len(sub) - 1) = sub
    /\ \A k \in 1..(i - 1) : SubSeq(s, k, k + Len(sub) - 1) # sub

\* C8 as stated: header, body and footer each occur exactly once in the
\* document, the header before the body and the body before the footer.
C8_EachBlobOccursOnce ==
  asmOut # <<>> =>
    LET out == asmOut[1]
    IN  /\ Occurrences(asmArgs.header, out) = 1
        /\ Occurrences(asmArgs.body, out) = 1
        /\ Occurrences(asmArgs.footer, out) = 1
        /\ FirstAt(asmArgs.header, out) < FirstAt(asmArgs.body, out)
        /\ FirstAt(asmArgs.body, out) < FirstAt(asmArgs.footer, out)

\* C8 amended: the document is the fixed wrapper with the header, the body
\* and the footer each placed verbatim in one slot, in that order: the
\* header right after the <body> line, the body between the <main> and
\* </main> lines, the footer between </main> and </body>, nothing else added.
C8_BlobsInSlotsInOrder ==
  asmOut # <<>> =>
    LET out == asmOut[1]
        H == asmArgs.header
        B == asmArgs.body
        F == asmArgs.footer
        slotH == Len(TemplateHead) + 1
        slotB == slotH + Len(H) + Len(TemplateMain)
        slotF == slotB + Len(B) + Len(TemplateEndMain)
    IN  /\ Len(out) = slotF + Len(F) - 1 + Len(TemplateTail)
        /\ SubSeq(out, 1, slotH - 1) = TemplateHead
        /\ SubSeq(out, slotH, slotH + Len(H) - 1) = H
        /\ SubSeq(out, slotH + Len(H), slotB - 1) = TemplateMain
        /\ SubSeq(out, slotB, slotB + Len(B) - 1) = B
        /\ SubSeq(out, slotB + Len(B), slotF - 1) = TemplateEndMain
        /\ SubSeq(out, slotF, slotF + Len(F) - 1) = F
        /\ SubSeq(out, slotF + Len(F), Len(out)) = TemplateTail
        /\ Occurrences(H, out) >= 1
        /\ Occurrences(B, out) >= 1
        /\ Occurrences(F, out) >= 1

C8_Witness ==
  /\ asmOut # <<>>
  /\ asmArgs.header = <<"<">>
  /\ asmArgs.body = <<"a", "<">>
  /\ asmArgs.footer = <<"<", "a">>
  /\ Occurrences(asmArgs.header, asmOut[1]) > 1

\* C9: with the same header and footer, two different bodies give two
\* different documents.
C9_InjectiveInBody ==
  (asmOut # <<>> /\ asmArgs.body # asmArgs.other) => asmOut[1] # asmOut[2]

C9_Witness ==
  /\ asmOut # <<>>
  /\ asmArgs.body = <<"a">>
  /\ asmArgs.other = <<"a", "<">>
  /\ asmOut[1] # asmOut[2]

RECURSIVE PageEvents(_, _)
\* for each page from position i on: its generation call, then its write
PageEvents(pages, i) ==
  IF i > Len(pages) THEN <<>>
  ELSE <<<<"call", "page", i>>, <<"write", pages[i], i>>>> \o PageEvents(pages, i + 1)

\* C10: the requests and writes of a run are a prefix of the fixed order
\* structure call, header call, footer call, write header.html, write
\* footer.html, stylesheet call, write main.css, then for each page in
\* list order its call and its write; only the last of them can have
\* failed, and then the run has failed.
C10_LinearOrder ==
  LET order == <<<<"call", "structure", 0>>, <<"call", "header", 0>>,
                 <<"call", "footer", 0>>, <<"write", "header.html", 0>>,
                 <<"write", "footer.html", 0>>, <<"call", "css", 0>>,
                 <<"write", "main.css", 0>>>> \o PageEvents(Pages, 1)
  IN  /\ Len(log) <= Len(order)
      /\ \A n \in DOMAIN log :
           /\ <<log[n].op, log[n].target, log[n].idx>> = order[n]
           /\ ~log[n].ok => (n = Len(log) /\ pc = "failed")

C10_Witness ==
  /\ pc = "done"
  /\ Len(Pages) = 2
  /\ Len(log) = 11

====
